---- MODULE Spec2Model ----
(***************************************************************************)
(* The ABAC e-document data generator of data/abac_edocument.py (the       *)
(* "basic" variant) and data/abac_edocument_extended.py (the "extended"    *)
(* variant), as one state machine: the module-level script of each file is *)
(* a pipeline, and every loop of it is a stage whose iterations are the    *)
(* steps of the machine.  A random draw is a nondeterministic choice.      *)
(*                                                                         *)
(* Strings the generator builds with f-strings are sequences of tokens:    *)
(* f"{tenant}Office{k}" is <<tenant, "Office", k>>, f"user{i}" is          *)
(* <<"user", i>>, and a literal such as "largeBankLeasingSales" is         *)
(* <<"largeBankLeasing", "Sales">>.  Objects held by reference (a user in  *)
(* users_by_department, a document's owner) are indices into users.        *)
(*                                                                         *)
(* The taxonomy tables are cut to two tenants (one with offices, one with  *)
(* none) and one customer tenant, the position list of the extended        *)
(* variant to four positions and its specialized roles to two; attributes  *)
(* that are sampled once and read by no relationship (document type, flags,*)
(* security levels, regions, ...) are not carried.                         *)
(***************************************************************************)
EXTENDS Integers, Sequences, FiniteSets, TLC

VARIABLES
    variant,              \* "basic" | "extended": which of the two scripts runs
    cfg,                  \* the population-size constants of the run
    pc,                   \* the stage of the pipeline
    idx,                  \* the loop index inside the stage
    offices,              \* the offices dict: tenant -> office count
    organizations,        \* the organizations dict: tenant -> Organization
    users,                \* the users list
    users_by_department,  \* the defaultdict(list), in insertion order of its keys
    documents,            \* the documents list
    users_by_role,        \* the defaultdict(list) keyed by role (extended)
    sameSeed,             \* a second run is observed: does it use the same seed?
    offices2,             \* the offices dict of the second run
    organizations2,       \* the organizations dict of the second run
    today,                \* <<day of run 1, day of run 2>>: datetime.now()
    out                   \* <<lines written by run 1, lines written by run 2>>

vars == <<variant, cfg, pc, idx, offices, organizations, users,
          users_by_department, documents, users_by_role, sameSeed, offices2, organizations2,
          today, out>>

-----------------------------------------------------------------------------
(* Bounds of the model: population sizes (nUsers = 10000, ... in the       *)
(* source) per configuration, and the widths of two integer draws.         *)

\* the hierarchy configuration: employees only, enough for a chain of three
HierUsers == 3
\* the pair configuration: two employees, a project and a document
PairUsers == 2
PairProjects == 1
PairDocuments == 1
\* the mixed configuration: every kind of user, one project, one document
MixedUsers == 1
MixedStaff == 1
MixedCustomers == 1
MixedProjects == 1
MixedDocuments == 1
\* the crowd configuration (basic variant): one employee and enough staff for
\* a tenant of more users than a sample of recipients takes, one document
CrowdUsers == 1
CrowdStaff == 3
CrowdDocuments == 1
\* the population the reviewer and approver step is applied to: specialized
\* users only, three of each role, and one document
ReviewStaff == 3
ReviewDocuments == 1
\* random.randint(1, 5) of the extended customer offices, cut to 1..CustomerOfficesHi
CustomerOfficesHi == 2
\* random.randint(0, 30) of get_last_login, cut to 0..DaysAgoHi
DaysAgoHi == 0
\* the second run starts on day 0..LastDay; the first on day 0
LastDay == 1
\* random.random() of the registered draw, in tenths, cut to 0..RegisteredRandomHi
RegisteredRandomHi == 0
\* the draws of the temporary-access loop: random.random() in tenths cut to
\* 0..TemporaryAccessRandomHi, random.randint(1, 3) to 1..TemporaryAccessCountHi,
\* random.randint(1, 100) to 1..TemporaryResourceHi
TemporaryAccessRandomHi == 0
TemporaryAccessCountHi == 1
TemporaryResourceHi == 1
\* random.random() of the delegation draw, in tenths, cut to 0..DelegationRandomHi
DelegationRandomHi == 3

\* random.randint(3, 20): the team size of a project
TeamSizeLo == 3
TeamSizeHi == 20
\* get_random_users_from_tenant(users, tenant, 5) and (users, tenant, 3)
NoOfficeRecipients == 5
ExtraRecipients == 3
\* random.randint(1, min(5, len(office_users))), random.randint(1, 8) and
\* random.randint(1, 5) of set_recipients
OfficeRecipientsHi == 5
TenantRecipientsHi == 8
DepartmentRecipientsHi == 5

\* random.randint(1, 3) reviewers, random.randint(1, 2) approvers
ReviewersHi == 3
ApproversHi == 2

Config(nU, nS, nC, nP, nD) ==
    [nUsers |-> nU, nStaff |-> nS, nCustomers |-> nC, num_projects |-> nP,
     nDocuments |-> nD]

HierConfig == Config(HierUsers, 0, 0, 0, 0)
PairConfig == Config(PairUsers, 0, 0, PairProjects, PairDocuments)
MixedConfig == Config(MixedUsers, MixedStaff, MixedCustomers, MixedProjects, MixedDocuments)
CrowdConfig == Config(CrowdUsers, CrowdStaff, 0, 0, CrowdDocuments)
ReviewConfig == Config(0, ReviewStaff, 0, 0, ReviewDocuments)

-----------------------------------------------------------------------------
(* Taxonomy registry                                                       *)

Variants == {"basic", "extended"}

NONE == <<"none">>        \* the string "none"
PyNone == <<"None">>      \* Python's None, where a built string is expected
PyNoneAtom == "None"      \* Python's None, where a literal of an enum is expected

tenants == <<"largeBankLeasing", "newsAgency">>
customerTenants == <<"ictProvider">>

Range(s) == {s[i] : i \in DOMAIN s}

AllTenants == Range(tenants) \cup Range(customerTenants)

positions(v) ==
    IF v = "basic"
    THEN <<"secretary", "director", "seniorOfficeManager", "officeManager", "insuranceAgent">>
    ELSE <<"secretary", "director", "analyst", "insuranceAgent">>

\* position_hierarchy.get(position, 0)
PositionRank(v, position) ==
    IF v = "basic"
    THEN CASE position = "secretary" -> 1
           [] position = "officeManager" -> 2
           [] position = "seniorOfficeManager" -> 3
           [] position = "director" -> 4
           [] OTHER -> 0
    ELSE CASE position = "secretary" -> 1
           [] position = "associate" -> 2
           [] position = "analyst" -> 3
           [] position = "specialist" -> 4
           [] position = "coordinator" -> 5
           [] position = "officeManager" -> 6
           [] position = "lead" -> 7
           [] position = "senior" -> 8
           [] position = "seniorOfficeManager" -> 9
           [] position = "principal" -> 10
           [] position = "director" -> 11
           [] position = "vicePresident" -> 12
           [] OTHER -> 0

\* customer departments named without their tenant: the names of newsAgency
get_customer_departments_of_agency(v, tenant) ==
    << <<"newsAgency", "Audit">>, <<"newsAgency", "IT">> >>

\* f"{tenant}{dept}" for dept in base_departments
get_customer_departments(v, tenant) ==
    LET base_departments ==
            IF tenant = "ictProvider" THEN <<"Audit", "ICT">> ELSE <<"Audit">>
    IN  [i \in DOMAIN base_departments |-> <<tenant, base_departments[i]>>]

\* the departments dict after the loop over customerTenants
departments(v, tenant) ==
    CASE tenant = "largeBankLeasing" ->
            << <<"largeBankLeasing", "Sales">> >>
      [] tenant = "newsAgency" ->
            << <<"newsAgency", "Audit">>, <<"newsAgency", "IT">> >>
      [] OTHER -> get_customer_departments(v, tenant)

\* the offices dict literal
OfficesLiteral(v) ==
    [t \in {"largeBankLeasing", "newsAgency", "ictProvider"} |->
        CASE t = "largeBankLeasing" -> 2
          [] t = "newsAgency" -> 0
          [] OTHER -> IF v = "basic" THEN 5 ELSE 8]

\* a loop over customerTenants that draws in both variants
CustomerOfficeDrawsAlways(v) == 0..CustomerOfficesHi

\* what the loop over customerTenants can store in offices[customerTenant]:
\* 0 (basic), random.randint(1, 5) (extended)
CustomerOfficeDraws(v) ==
    IF v = "basic" THEN {0} ELSE 1..CustomerOfficesHi

\* Organization(orgId, departments, offices)
Organization(orgId, depts, nOffices) ==
    [orgId |-> orgId, departments |-> depts, offices |-> nOffices]

\* offices.get(tenant, 0)
OfficesGet(offs, tenant) == IF tenant \in DOMAIN offs THEN offs[tenant] ELSE 0

\* the organizations dict built from the departments and offices dicts
BuildOrganizations(v, offs) ==
    [t \in AllTenants |-> Organization(t, departments(v, t), OfficesGet(offs, t))]

-----------------------------------------------------------------------------
(* Users                                                                   *)

\* User.__init__
User(userId, role, organization, department, office, position, daysAgo) ==
    [userId |-> userId,
     role |-> role,
     organization |-> organization,
     department |-> IF department # PyNone THEN department ELSE NONE,
     office |-> IF office # PyNone THEN office ELSE NONE,
     position |-> IF position # PyNoneAtom THEN position ELSE "none",
     projects |-> {},
     supervisor |-> PyNone,
     supervisee |-> {},
     payrollingPermissions |-> FALSE,
     registered |-> FALSE,
     temporaryAccess |-> {},
     delegatedAuthority |-> {},
     currentProjects |-> {},
     lastLoginDaysAgo |-> daysAgo]

\* a valid_positions that forgets the office count
valid_positions_unfiltered(v, nOffices) == Range(positions(v))

\* valid_positions of an employee of a tenant
valid_positions(v, nOffices) ==
    IF nOffices > 0
    THEN Range(positions(v))
    ELSE {p \in Range(positions(v)) : p \notin {"secretary", "director"}}

\* an office number drawn from 0..offices[tenant]
OfficeNumbersFromZero(nOffices) == 0..nOffices

\* the values random.randint(1, offices[tenant]) can return; it is drawn only
\* when offices[tenant] > 0
OfficeNumbers(nOffices) == IF nOffices > 0 THEN 1..nOffices ELSE {0}

\* f"{tenant}Office{k}"
OfficeName(tenant, k) == <<tenant, "Office", k>>

\* the office of an employee
EmployeeOffice(tenant, nOffices, position, k) ==
    IF nOffices > 0 \/ position \in {"secretary", "director"}
    THEN IF nOffices > 0 THEN OfficeName(tenant, k) ELSE NONE
    ELSE NONE

\* the values random.randint(0, 30) of get_last_login can return (extended)
LoginDraws(v) == IF v = "basic" THEN {0} ELSE 0..DaysAgoHi

\* users_by_department[(tenant, department)].append(user)
AppendToGroup(ubd, key, u) ==
    IF \E g \in DOMAIN ubd : ubd[g].key = key
    THEN [g \in DOMAIN ubd |->
            IF ubd[g].key = key
            THEN [ubd[g] EXCEPT !.members = Append(@, u)]
            ELSE ubd[g]]
    ELSE Append(ubd, [key |-> key, members |-> <<u>>])

\* users_by_role[role].append(user): the extended variant only
AppendToRole(v, ubr, role, u) ==
    IF v = "extended" THEN AppendToGroup(ubr, role, u) ELSE ubr

-----------------------------------------------------------------------------
(* The pipeline                                                            *)

\* the order of the components as the design lists them: the resolver of
\* hierarchy and relationships, delegation and temporary access included,
\* before the project allocator
StageOrderOfComponents ==
    <<"offices", "organizations", "employees", "staff", "customers",
      "supervisor", "registered", "payroll", "tempAccess", "delegation",
      "projects", "documents", "recipients", "relationships",
      "output", "done">>

\* the loops of the script, in the order of the file
StageOrder ==
    <<"offices", "organizations", "employees", "staff", "customers",
      "supervisor", "registered", "payroll", "projects",
      "tempAccess", "delegation", "documents", "recipients", "relationships",
      "output", "done">>

\* the specialized roles: (prefix, role)
specialized_roles(v) ==
    IF v = "basic"
    THEN << <<"hdop", "helpdesk">>, <<"admin", "admin">> >>
    ELSE << <<"admin", "admin">>, <<"pm", "projectManager">> >>

\* the number of iterations of a stage's loop
Iterations(stage, nUsersNow, nGroups, nDocs) ==
    CASE stage = "offices" -> 1
      [] stage = "organizations" -> 1
      [] stage = "employees" -> cfg.nUsers
      [] stage = "staff" -> cfg.nStaff * Len(specialized_roles(variant))
      [] stage = "customers" -> cfg.nCustomers
      [] stage = "supervisor" -> nGroups
      [] stage = "payroll" -> nGroups
      [] stage = "projects" -> IF variant = "extended" THEN cfg.num_projects ELSE 0
      [] stage = "tempAccess" -> IF variant = "extended" THEN 1 ELSE 0
      [] stage = "delegation" -> IF variant = "extended" THEN nUsersNow ELSE 0
      [] stage = "documents" -> cfg.nDocuments
      [] stage = "recipients" -> IF variant = "extended" THEN nDocs ELSE 0
      [] stage = "relationships" -> nDocs
      [] stage = "output" -> nUsersNow + nDocs
      [] OTHER -> 1

RECURSIVE FirstRunnable(_, _, _, _)
FirstRunnable(k, nUsersNow, nGroups, nDocs) ==
    IF k >= Len(StageOrder) THEN StageOrder[Len(StageOrder)]
    ELSE IF Iterations(StageOrder[k], nUsersNow, nGroups, nDocs) > 0 THEN StageOrder[k]
    ELSE FirstRunnable(k + 1, nUsersNow, nGroups, nDocs)

StageIndex(stage) == CHOOSE k \in DOMAIN StageOrder : StageOrder[k] = stage

\* the control state after iteration idx of the loop of `stage`
Step(stage, nUsersNow, nGroups, nDocs) ==
    IF idx + 1 < Iterations(stage, nUsersNow, nGroups, nDocs)
    THEN /\ pc' = stage
         /\ idx' = idx + 1
    ELSE /\ pc' = FirstRunnable(StageIndex(stage) + 1, nUsersNow, nGroups, nDocs)
         /\ idx' = 0

InitWith(configs, seeds, days) ==
    /\ variant \in Variants
    /\ cfg \in configs
    /\ pc = "offices"
    /\ idx = 0
    /\ offices = OfficesLiteral(variant)
    /\ organizations = <<>>
    /\ users = <<>>
    /\ users_by_department = <<>>
    /\ documents = <<>>
    /\ users_by_role = <<>>
    /\ sameSeed \in seeds
    /\ offices2 = OfficesLiteral(variant)
    /\ organizations2 = <<>>
    /\ today \in {0} \X days
    /\ out = << <<>>, <<>> >>

Init ==
    \/ InitWith({HierConfig, PairConfig, MixedConfig}, {TRUE}, {0})
    \/ InitWith({CrowdConfig}, {TRUE}, {0}) /\ variant = "basic"

\* the offices dict after the loop over customerTenants stored draw[t]
WithCustomerOffices(offs, draw) ==
    [t \in DOMAIN offs \cup Range(customerTenants) |->
        IF t \in Range(customerTenants) THEN draw[t] ELSE offs[t]]

\* for customerTenant in customerTenants: offices[customerTenant] = ...
\* (the second run draws the same values when its seed is the same)
SetCustomerOffices ==
    /\ pc = "offices"
    /\ \E draw \in [Range(customerTenants) -> CustomerOfficeDraws(variant)] :
       \E draw2 \in [Range(customerTenants) -> CustomerOfficeDraws(variant)] :
          /\ sameSeed => draw2 = draw
          /\ offices' = WithCustomerOffices(offices, draw)
          /\ offices2' = WithCustomerOffices(offices2, draw2)
    /\ Step("offices", 0, 0, 0)
    /\ UNCHANGED <<variant, cfg, organizations, users, users_by_department,
                   documents, users_by_role, sameSeed, organizations2, today, out>>

\* organizations = {tenant: Organization(tenant, departments[tenant], offices[tenant]) ...}
GenerateOrganizations ==
    /\ pc = "organizations"
    /\ organizations' = BuildOrganizations(variant, offices)
    /\ organizations2' = BuildOrganizations(variant, offices2)
    /\ Step("organizations", 0, 0, 0)
    /\ UNCHANGED <<variant, cfg, offices, users, users_by_department, documents,
                   users_by_role, sameSeed, offices2, today, out>>

\* for i in range(nUsers): one employee
GenerateEmployee ==
    /\ pc = "employees"
    /\ \E tenant \in Range(tenants) :
       \E position \in valid_positions(variant, offices[tenant]) :
       \E k \in OfficeNumbers(offices[tenant]) :
       \E department \in Range(departments(variant, tenant)) :
       \E daysAgo \in LoginDraws(variant) :
          LET office == EmployeeOffice(tenant, offices[tenant], position, k)
              user == User(<<"user", idx>>, "employee", tenant, department,
                           office, position, daysAgo)
          IN  /\ users' = Append(users, user)
              /\ users_by_department' =
                    AppendToGroup(users_by_department, <<tenant, department>>,
                                  Len(users) + 1)
              /\ users_by_role' = AppendToRole(variant, users_by_role, "employee",
                                               Len(users) + 1)
    /\ Step("employees", Len(users'), Len(users_by_department'), 0)
    /\ UNCHANGED <<variant, cfg, offices, organizations, documents, sameSeed,
                   offices2, organizations2, today, out>>

\* the role of the idx-th specialized user, and its number within the role
StaffRole(v, n) == specialized_roles(v)[(n \div cfg.nStaff) + 1]
StaffNumber(n) == n % cfg.nStaff

\* the departments a specialized user can be given: none at all (basic),
\* random.choice(departments[tenant]) (extended)
StaffDepartments(v, tenant) ==
    IF v = "basic" THEN {PyNone} ELSE Range(departments(v, tenant))

\* for i in range(nHelpdeskOperators) ..., for i in range(nApplicationAdmins) ...
\* (basic); for prefix, role, count in specialized_roles (extended)
GenerateStaff ==
    /\ pc = "staff"
    /\ \E tenant \in Range(tenants) :
       \E department \in StaffDepartments(variant, tenant) :
       \E daysAgo \in LoginDraws(variant) :
          LET pr == StaffRole(variant, idx)
              user == User(<<pr[1], StaffNumber(idx)>>, pr[2], tenant, department,
                           PyNone, PyNoneAtom, daysAgo)
          IN  /\ users' = Append(users, user)
              /\ users_by_role' = AppendToRole(variant, users_by_role, pr[2],
                                               Len(users) + 1)
    /\ Step("staff", Len(users'), Len(users_by_department), 0)
    /\ UNCHANGED <<variant, cfg, offices, organizations, users_by_department,
                   documents, sameSeed, offices2, organizations2, today, out>>

\* the department list a customer's department is chosen from:
\* get_customer_departments(tenant) (basic), departments[tenant] (extended)
CustomerDepartments(v, tenant) ==
    IF v = "basic"
    THEN Range(get_customer_departments(v, tenant))
    ELSE Range(departments(v, tenant))

\* for i in range(nCustomers): one customer
GenerateCustomer ==
    /\ pc = "customers"
    /\ \E tenant \in Range(customerTenants) :
       \E department \in CustomerDepartments(variant, tenant) :
       \E daysAgo \in LoginDraws(variant) :
          users' = Append(users, User(<<"cstmr", idx>>, "customer", tenant,
                                      department, PyNone, PyNoneAtom, daysAgo))
    /\ users_by_role' = AppendToRole(variant, users_by_role, "customer", Len(users) + 1)
    /\ Step("customers", Len(users'), Len(users_by_department), 0)
    /\ UNCHANGED <<variant, cfg, offices, organizations, users_by_department,
                   documents, sameSeed, offices2, organizations2, today, out>>

-----------------------------------------------------------------------------
(* Hierarchy and relationship resolver                                     *)

\* key=lambda u: position_hierarchy.get(u.position, 0)
SortKey(v, us, u) == PositionRank(v, us[u].position)

\* an insertion that puts x before the elements of equal key (an unstable sort)
RECURSIVE SortedInsertBeforeTies(_, _, _, _)
SortedInsertBeforeTies(v, us, s, x) ==
    IF s = <<>> THEN <<x>>
    ELSE IF SortKey(v, us, Head(s)) > SortKey(v, us, x)
         THEN <<Head(s)>> \o SortedInsertBeforeTies(v, us, Tail(s), x)
         ELSE <<x>> \o s

\* where list.sort(reverse=True) puts x among the already sorted s: after
\* every element whose key is not smaller (the sort is stable)
RECURSIVE SortedInsert(_, _, _, _)
SortedInsert(v, us, s, x) ==
    IF s = <<>> THEN <<x>>
    ELSE IF SortKey(v, us, Head(s)) >= SortKey(v, us, x)
         THEN <<Head(s)>> \o SortedInsert(v, us, Tail(s), x)
         ELSE <<x>> \o s

\* a sort that forgets reverse=True: ascending, stable
RECURSIVE SortAscending(_, _, _)
SortAscending(v, us, s) ==
    IF s = <<>> THEN <<>>
    ELSE LET rest == SortAscending(v, us, SubSeq(s, 1, Len(s) - 1))
             x == s[Len(s)]
             before == SelectSeq(rest, LAMBDA y : SortKey(v, us, y) <= SortKey(v, us, x))
             after == SelectSeq(rest, LAMBDA y : SortKey(v, us, y) > SortKey(v, us, x))
         IN  before \o <<x>> \o after

\* dept_users.sort(key=..., reverse=True)
RECURSIVE SortDescending(_, _, _)
SortDescending(v, us, s) ==
    IF s = <<>> THEN <<>>
    ELSE SortedInsert(v, us, SortDescending(v, us, SubSeq(s, 1, Len(s) - 1)), s[Len(s)])

\* a chain that records the supervisee on the user itself
AssignChainOnSelf(us, sorted) ==
    [u \in DOMAIN us |->
        IF \E i \in DOMAIN sorted : sorted[i] = u
        THEN LET i == CHOOSE j \in DOMAIN sorted : sorted[j] = u
             IN  [us[u] EXCEPT
                    !.supervisor = IF i > 1 THEN us[sorted[i - 1]].userId ELSE @,
                    !.supervisee = IF i > 1 THEN @ \cup {us[u].userId} ELSE @]
        ELSE us[u]]

\* for i, user in enumerate(dept_users): if i > 0: ...
AssignChain(us, sorted) ==
    [u \in DOMAIN us |->
        IF \E i \in DOMAIN sorted : sorted[i] = u
        THEN LET i == CHOOSE j \in DOMAIN sorted : sorted[j] = u
             IN  [us[u] EXCEPT
                    !.supervisor = IF i > 1 THEN us[sorted[i - 1]].userId ELSE @,
                    !.supervisee = IF i < Len(sorted)
                                   THEN @ \cup {us[sorted[i + 1]].userId}
                                   ELSE @]
        ELSE us[u]]

\* for (tenant, department), dept_users in users_by_department.items(): one group
SupervisorLogic ==
    /\ pc = "supervisor"
    /\ LET g == idx + 1
           sorted == SortDescending(variant, users, users_by_department[g].members)
       IN  /\ users_by_department' =
                 [users_by_department EXCEPT ![g].members = sorted]
           /\ users' = AssignChain(users, sorted)
    /\ Step("supervisor", Len(users), Len(users_by_department), 0)
    /\ UNCHANGED <<variant, cfg, offices, organizations, documents, users_by_role, sameSeed,
                   offices2, organizations2, today, out>>

\* probability(p): random.random() < p, both in tenths
probability(p, r) == r < p

\* a registration of the users that have a supervisor
RegisteredWithSupervisor(v, u, r) == u.supervisor # PyNone

\* user.registered after the registration step handled the user
RegisteredValue(v, u, r) ==
    IF v = "basic"
    THEN u.supervisee # {}
    ELSE IF u.supervisee # {} \/ u.role \in {"manager", "director", "projectManager"}
         THEN TRUE
         ELSE probability(7, r)

\* for user in users: user.registered = ...
UpdateRegistered ==
    /\ pc = "registered"
    /\ \E r \in [DOMAIN users -> 0..RegisteredRandomHi] :
          users' = [u \in DOMAIN users |->
                      [users[u] EXCEPT
                         !.registered = RegisteredValue(variant, users[u], r[u])]]
    /\ Step("registered", Len(users), Len(users_by_department), 0)
    /\ UNCHANGED <<variant, cfg, offices, organizations, users_by_department,
                   documents, users_by_role, sameSeed, offices2, organizations2, today, out>>

\* a payrolling step without the forced random.choice(dept_users)
PayrollHoldersNoChoice(v, us, members, chosen, flips) ==
    {members[i] : i \in {j \in DOMAIN members :
        \/ v = "extended" /\ us[members[j]].role \in {"manager", "admin", "financialOfficer"}
        \/ j \in flips}}

\* the members of a group whose flag the payrolling step sets: the one of
\* random.choice(dept_users) and those of the loop over dept_users
PayrollHolders(v, us, members, chosen, flips) ==
    {members[chosen]}
        \cup {members[i] : i \in {j \in DOMAIN members :
                 \/ v = "extended" /\ us[members[j]].role \in {"manager", "admin", "financialOfficer"}
                 \/ j \in flips}}

\* for (tenant, department), dept_users in users_by_department.items(): one group
AssignPayrolling ==
    /\ pc = "payroll"
    /\ LET members == users_by_department[idx + 1].members
       IN  \E chosen \in DOMAIN members :
           \E flips \in SUBSET (DOMAIN members) :
              LET holders == PayrollHolders(variant, users, members, chosen, flips)
              IN  users' = [u \in DOMAIN users |->
                              IF u \in holders
                              THEN [users[u] EXCEPT !.payrollingPermissions = TRUE]
                              ELSE users[u]]
    /\ Step("payroll", Len(users), Len(users_by_department), 0)
    /\ UNCHANGED <<variant, cfg, offices, organizations, users_by_department,
                   documents, users_by_role, sameSeed, offices2, organizations2, today, out>>

-----------------------------------------------------------------------------
(* Project allocator (extended)                                            *)

SubsetsOfSize(S, n) == {T \in SUBSET S : Cardinality(T) = n}

Min(a, b) == IF a < b THEN a ELSE b

\* a team of the project owner alone
ProjectTeamsOfOne(us, project_team_size) ==
    SubsetsOfSize(DOMAIN us, Min(1, Len(us)))

\* random.sample(users, min(project_team_size, len(users))), as a set
ProjectTeams(us, project_team_size) ==
    SubsetsOfSize(DOMAIN us, Min(project_team_size, Len(us)))

\* for i in range(num_projects): one project
GenerateProject ==
    /\ pc = "projects"
    /\ variant = "extended"
    /\ \E project_team_size \in TeamSizeLo..TeamSizeHi :
       \E project_team \in ProjectTeams(users, project_team_size) :
          users' = [u \in DOMAIN users |->
                      IF u \in project_team
                      THEN [users[u] EXCEPT
                              !.currentProjects = @ \cup {<<"proj", idx>>},
                              !.projects = @ \cup {<<"proj", idx>>}]
                      ELSE users[u]]
    /\ Step("projects", Len(users), Len(users_by_department), 0)
    /\ UNCHANGED <<variant, cfg, offices, organizations, users_by_department,
                   documents, users_by_role, sameSeed, offices2, organizations2, today, out>>

-----------------------------------------------------------------------------
(* Temporary access and delegation (extended)                              *)

\* the sets of temporary resources a user can be given: none when the draw
\* of probability(0.2) fails, else temp_access_count draws of tempRes{1..100}
TemporaryAccessDraws ==
    {IF probability(2, r) THEN picks ELSE {} :
        r \in 0..TemporaryAccessRandomHi,
        picks \in {S \in SUBSET {<<"tempRes", k>> : k \in 1..TemporaryResourceHi} :
                     1 <= Cardinality(S) /\ Cardinality(S) <= TemporaryAccessCountHi}}

\* for user in users: ... user.temporaryAccess.add(temp_resource)
GenerateTemporaryAccess ==
    /\ pc = "tempAccess"
    /\ variant = "extended"
    /\ \E access \in [DOMAIN users -> TemporaryAccessDraws] :
          users' = [u \in DOMAIN users |->
                      [users[u] EXCEPT !.temporaryAccess = @ \cup access[u]]]
    /\ Step("tempAccess", Len(users), Len(users_by_department), 0)
    /\ UNCHANGED <<variant, cfg, offices, organizations, users_by_department,
                   documents, users_by_role, sameSeed, offices2, organizations2,
                   today, out>>

\* potential delegates taken from every department
potential_delegates_of_population(us, user) ==
    {u \in DOMAIN us : u # user}

\* potential_delegates = [u for u in users if u.department == user.department and u != user]
potential_delegates(us, user) ==
    {u \in DOMAIN us : us[u].department = us[user].department /\ u # user}

\* a delegation that draws from potential_delegates without looking whether
\* there is one
DelegatesUnguarded(us, user, r) ==
    IF us[user].role \in {"manager", "director", "projectManager"} /\ probability(3, r)
    THEN {{u} : u \in potential_delegates(us, user)}
    ELSE {{}}

\* the users whose delegatedAuthority receives user.userId: at most the one of
\* random.choice(potential_delegates)
Delegates(us, user, r) ==
    IF us[user].role \in {"manager", "director", "projectManager"} /\ probability(3, r)
    THEN {{u} : u \in potential_delegates(us, user)}
            \cup (IF potential_delegates(us, user) = {} THEN {{}} ELSE {})
    ELSE {{}}

\* for user in users: one user
GenerateDelegation ==
    /\ pc = "delegation"
    /\ variant = "extended"
    /\ \E r \in 0..DelegationRandomHi :
       \E delegate \in Delegates(users, idx + 1, r) :
          users' = [u \in DOMAIN users |->
                      IF u \in delegate
                      THEN [users[u] EXCEPT
                              !.delegatedAuthority = @ \cup {users[idx + 1].userId}]
                      ELSE users[u]]
    /\ Step("delegation", Len(users), Len(users_by_department), 0)
    /\ UNCHANGED <<variant, cfg, offices, organizations, users_by_department,
                   documents, users_by_role, sameSeed, offices2, organizations2,
                   today, out>>

-----------------------------------------------------------------------------
(* Documents                                                               *)

\* a sample taken from the users of every tenant
get_random_users_from_population(us, tenant, count) ==
    SubsetsOfSize(DOMAIN us, Min(count, Len(us)))

\* get_random_users_from_tenant(users, tenant, count): the samples it can return
get_random_users_from_tenant(us, tenant, count) ==
    LET tenant_users == {u \in DOMAIN us : us[u].organization = tenant}
    IN  SubsetsOfSize(tenant_users, Min(count, Cardinality(tenant_users)))

\* the office of a document
DocumentOffice(tenant, nOffices, k) ==
    IF nOffices > 0 THEN OfficeName(tenant, k) ELSE NONE

\* self.tenant of Document.__init__: owner.organization.orgId
DocumentTenant(us, owner) == organizations[us[owner].organization].orgId

\* a department sampled anew: the first department of the owner's tenant
DocumentDepartmentOfTenant(us, owner) ==
    departments(variant, us[owner].organization)[1]

\* self.department of Document.__init__
DocumentDepartment(us, owner) == us[owner].department

\* a document that sits in the office of its owner
DocumentInOwnerOffice(docId, us, owner, offs, k, status) ==
    [docId |-> docId,
     owner |-> owner,
     tenant |-> DocumentTenant(us, owner),
     department |-> DocumentDepartment(us, owner),
     office |-> us[owner].office,
     recipients |-> {},
     approvalStatus |-> status,
     reviewers |-> {},
     approvers |-> {}]

\* self.approvalStatus = random.choice([...]) of the extended Document.__init__:
\* of "draft", "pending", "approved", "rejected", "archived" the model keeps
\* one status outside ["pending", "approved"] and one inside; the basic
\* variant has no such attribute
approvalStatuses(v) ==
    IF v = "basic" THEN {PyNoneAtom} ELSE {"draft", "pending"}

\* Document.__init__, without the recipients
Document(docId, us, owner, offs, k, status) ==
    [docId |-> docId,
     owner |-> owner,
     tenant |-> DocumentTenant(us, owner),
     department |-> DocumentDepartment(us, owner),
     office |-> DocumentOffice(DocumentTenant(us, owner),
                               offs[DocumentTenant(us, owner)], k),
     recipients |-> {},
     approvalStatus |-> status,
     reviewers |-> {},
     approvers |-> {}]

\* the recipients Document.__init__ of the basic variant collects
BasicRecipients(us, doc, sample5, sample3) ==
    (IF doc.office # NONE
     THEN {u \in DOMAIN us : us[u].office = doc.office}
     ELSE sample5) \cup sample3

\* doc = Document(f"doc{i}", docType, owner, ...); documents.append(doc), for
\* the owner random.choice(users) returned and the office number drawn
GenerateDocumentOf(owner, k) ==
    /\ pc = "documents"
    /\ \E status \in approvalStatuses(variant) :
       LET doc == Document(<<"doc", idx>>, users, owner, offices, k, status)
       IN  IF variant = "basic"
           THEN \E sample5 \in get_random_users_from_tenant(users, doc.tenant,
                                                           NoOfficeRecipients) :
                \E sample3 \in get_random_users_from_tenant(users, doc.tenant,
                                                           ExtraRecipients) :
                   documents' = Append(documents,
                       [doc EXCEPT !.recipients =
                           BasicRecipients(users, doc, sample5, sample3)])
           ELSE documents' = Append(documents, doc)
    /\ Step("documents", Len(users), Len(users_by_department), Len(documents'))
    /\ UNCHANGED <<variant, cfg, offices, organizations, users,
                   users_by_department, users_by_role, sameSeed, offices2,
                   organizations2, today, out>>

\* for i in range(nDocuments): one document
GenerateDocument ==
    \E owner \in DOMAIN users :
    \E k \in OfficeNumbers(offices[users[owner].organization]) :
       GenerateDocumentOf(owner, k)

\* [user for user in all_users ...]: the users in the order of the users list
UserList(us) == [u \in DOMAIN us |-> u]

\* the non-empty subsets of S of at most hi elements:
\* random.sample(S, min(random.randint(1, hi), len(S)))
SamplesUpTo(S, hi) ==
    {T \in SUBSET S : 1 <= Cardinality(T) /\ Cardinality(T) <= Min(hi, Cardinality(S))}

\* what set_recipients can add for the office:
\* office_users[:random.randint(1, min(5, len(office_users)))]
OfficeRecipients(us, doc) ==
    LET office_users == SelectSeq(UserList(us), LAMBDA u : us[u].office = doc.office)
    IN  IF doc.office # NONE /\ office_users # <<>>
        THEN {Range(SubSeq(office_users, 1, n)) :
                n \in 1..Min(OfficeRecipientsHi, Len(office_users))}
        ELSE {{}}

\* what set_recipients can add for the tenant
TenantRecipients(us, doc) ==
    LET tenant_users ==
            SelectSeq(UserList(us), LAMBDA u : organizations[us[u].organization].orgId = doc.tenant)
    IN  IF tenant_users # <<>>
        THEN SamplesUpTo(Range(tenant_users), TenantRecipientsHi)
        ELSE {{}}

\* what set_recipients can add for the department
DepartmentRecipients(us, doc) ==
    LET dept_users == SelectSeq(UserList(us), LAMBDA u : us[u].department = doc.department)
    IN  IF dept_users # <<>>
        THEN SamplesUpTo(Range(dept_users), DepartmentRecipientsHi)
        ELSE {{}}

\* for i, doc in enumerate(documents): doc.set_recipients(users)
SetRecipients ==
    /\ pc = "recipients"
    /\ variant = "extended"
    /\ LET doc == documents[idx + 1]
       IN  \E office_part \in OfficeRecipients(users, doc) :
           \E tenant_part \in TenantRecipients(users, doc) :
           \E dept_part \in DepartmentRecipients(users, doc) :
              documents' = [documents EXCEPT ![idx + 1].recipients =
                               @ \cup office_part \cup tenant_part \cup dept_part]
    /\ Step("recipients", Len(users), Len(users_by_department), Len(documents))
    /\ UNCHANGED <<variant, cfg, offices, organizations, users,
                   users_by_department, users_by_role, sameSeed, offices2, organizations2, today, out>>

\* a back-reference step that also files the first project under the owner
OwnerProjectsAndProject(v, owned, docId) ==
    owned \cup {docId, <<"proj", 0>>}

\* doc.owner.projects after the back-reference step handled doc:
\* doc.owner.projects.add(doc.docId) (basic),
\* if doc.owner.projects: doc.owner.projects.add(doc.docId) (extended)
OwnerProjects(v, owned, docId) ==
    IF v = "basic" \/ owned # {} THEN owned \cup {docId} ELSE owned

\* the user ids of a set of users
UserIds(us, S) == {us[u].userId : u \in S}

\* a list of potential reviewers that keeps the owner
potential_reviewers_with_owner(us, doc) ==
    {u \in DOMAIN us : us[u].department = doc.department}

\* potential_reviewers = [u for u in users if u.department == doc.department and u != doc.owner]
potential_reviewers(us, doc) ==
    {u \in DOMAIN us : us[u].department = doc.department /\ u # doc.owner}

\* potential_approvers = [u for u in users if u.role in ["manager", "director", "admin"]
\*                        and u.department == doc.department]
potential_approvers(us, doc) ==
    {u \in DOMAIN us : /\ us[u].role \in {"manager", "director", "admin"}
                       /\ us[u].department = doc.department}

\* the values doc.reviewers can have after the step: set(random.sample(ids,
\* min(random.randint(1, 3), len(ids)))) when the status is pending or approved
\* and there is a potential reviewer, else the set() of Document.__init__
Reviewers(v, us, doc) ==
    IF /\ v = "extended"
       /\ doc.approvalStatus \in {"pending", "approved"}
       /\ potential_reviewers(us, doc) # {}
    THEN {UserIds(us, T) : T \in SamplesUpTo(potential_reviewers(us, doc), ReviewersHi)}
    ELSE {doc.reviewers}

\* the values doc.approvers can have after the step
Approvers(v, us, doc) ==
    IF /\ v = "extended"
       /\ doc.approvalStatus \in {"pending", "approved"}
       /\ potential_approvers(us, doc) # {}
    THEN {UserIds(us, T) : T \in SamplesUpTo(potential_approvers(us, doc), ApproversHi)}
    ELSE {doc.approvers}

\* for doc in documents: one document (the related documents are not modelled)
AssignDocument ==
    /\ pc = "relationships"
    /\ LET doc == documents[idx + 1]
       IN  /\ users' = [users EXCEPT ![doc.owner].projects =
                           OwnerProjects(variant, @, doc.docId)]
           /\ \E reviewers \in Reviewers(variant, users, doc) :
              \E approvers \in Approvers(variant, users, doc) :
                 documents' = [documents EXCEPT ![idx + 1].reviewers = reviewers,
                                                ![idx + 1].approvers = approvers]
    /\ Step("relationships", Len(users), Len(users_by_department), Len(documents))
    /\ UNCHANGED <<variant, cfg, offices, organizations, users_by_department,
                   users_by_role, sameSeed, offices2, organizations2, today, out>>

-----------------------------------------------------------------------------
(* Output: the lines of the two observed runs.  A run with the same seed   *)
(* makes the same draws, so it builds the same population; what it reads   *)
(* besides the draws is its clock (datetime.now()) and the iteration order *)
(* of its sets (the hash of a str is salted per process, that of a User is *)
(* its address).  The lines of a second run with another seed are not      *)
(* observed.                                                               *)

\* the orders in which a set can be iterated
Orders(S) ==
    {s \in [1..Cardinality(S) -> S] : \A i, j \in 1..Cardinality(S) : s[i] = s[j] => i = j}

\* A serialized text is a sequence of string tokens.

\* f"{prefix}{i}": the text of an id
IdText(id) == <<id[1], ToString(id[2])>>

\* the text of an office: f"{tenant}Office{k}", or "none"
OfficeText(office) ==
    IF Len(office) = 3 THEN <<office[1], office[2], ToString(office[3])>> ELSE office

\* 'True' if b else 'False', and str(b)
BoolText(b) == IF b THEN <<"True">> ELSE <<"False">>

\* (datetime.now() - timedelta(days=days_ago)).strftime("%Y-%m-%d")
DateText(now, days_ago) == <<"day", ToString(now - days_ago)>>

\* sep.join(texts)
RECURSIVE Join(_, _)
Join(texts, sep) ==
    IF texts = <<>> THEN <<>>
    ELSE IF Len(texts) = 1 THEN texts[1]
    ELSE texts[1] \o sep \o Join(Tail(texts), sep)

\* a set rendered like str(list): "{a, b}"
SetTextCommaSeparated(elements) == <<"{">> \o Join(elements, <<", ">>) \o <<"}">>

\* f"{{{' '.join(elements)}}}"
SetText(elements) == <<"{">> \o Join(elements, <<" ">>) \o <<"}">>

\* f"{key}={value}"
AttributeText(key, value) == <<key, "=">> \o value

\* f"userAttrib({id}, {', '.join(attributes)})", and the same of resourceAttrib
LineText(kind, id, attributes) ==
    <<kind, "(">> \o Join(<<id>> \o attributes, <<", ">>) \o <<")">>

\* the texts of the ids of a set iterated in `order`
IdTexts(order) == [i \in DOMAIN order |-> IdText(order[i])]

\* User.__str__, a set rendered in the order its iteration takes
UserLine(v, u, now, order) ==
    LineText("userAttrib", IdText(u.userId),
        << AttributeText("role", <<u.role>>),
           AttributeText("position", <<u.position>>),
           AttributeText("tenant", <<organizations[u.organization].orgId>>),
           AttributeText("department", u.department),
           AttributeText("office", OfficeText(u.office)),
           AttributeText("registered", BoolText(u.registered)),
           AttributeText("projects", SetText(IdTexts(order.projects))),
           AttributeText("supervisor",
                         IF u.supervisor # PyNone THEN IdText(u.supervisor) ELSE NONE),
           AttributeText("supervisee", SetText(IdTexts(order.supervisee))),
           AttributeText("payrollingPermissions", BoolText(u.payrollingPermissions)) >>
        \o (IF v = "extended"
            THEN << AttributeText("temporaryAccess", SetText(IdTexts(order.temporaryAccess))),
                    AttributeText("delegatedAuthority",
                                  SetText(IdTexts(order.delegatedAuthority))),
                    AttributeText("currentProjects", SetText(IdTexts(order.currentProjects))),
                    AttributeText("lastLogin", DateText(now, u.lastLoginDaysAgo)) >>
            ELSE <<>>))

\* the iteration orders of the sets of a user
UserOrders(u) ==
    [projects : Orders(u.projects), supervisee : Orders(u.supervisee),
     temporaryAccess : Orders(u.temporaryAccess),
     delegatedAuthority : Orders(u.delegatedAuthority),
     currentProjects : Orders(u.currentProjects)]

\* Document.__str__
DocumentLine(us, d, order) ==
    LineText("resourceAttrib", IdText(d.docId),
        << AttributeText("owner", IdText(us[d.owner].userId)),
           AttributeText("tenant", <<d.tenant>>),
           AttributeText("department", d.department),
           AttributeText("office", OfficeText(d.office)),
           AttributeText("recipients",
                         SetText([i \in DOMAIN order |-> IdText(us[order[i]].userId)])) >>)

\* what the second run has written after its line: nothing is observed of a
\* run with another seed
SecondRun(lines, line) == IF sameSeed THEN Append(lines, line) ELSE lines

\* for user in users: f.write(str(user) + "\n"), in both runs
WriteUser ==
    /\ pc = "output"
    /\ idx < Len(users)
    /\ LET u == users[idx + 1]
       IN  \E order1 \in UserOrders(u) :
           \E order2 \in UserOrders(u) :
              out' = <<Append(out[1], UserLine(variant, u, today[1], order1)),
                       SecondRun(out[2], UserLine(variant, u, today[2], order2))>>
    /\ Step("output", Len(users), Len(users_by_department), Len(documents))
    /\ UNCHANGED <<variant, cfg, offices, organizations, users,
                   users_by_department, documents, users_by_role, sameSeed, offices2,
                   organizations2, today>>

\* for doc in documents: f.write(str(doc) + "\n"), in both runs
WriteDocument ==
    /\ pc = "output"
    /\ idx >= Len(users)
    /\ LET d == documents[idx - Len(users) + 1]
       IN  \E order1 \in Orders(d.recipients) :
           \E order2 \in Orders(d.recipients) :
              out' = <<Append(out[1], DocumentLine(users, d, order1)),
                       SecondRun(out[2], DocumentLine(users, d, order2))>>
    /\ Step("output", Len(users), Len(users_by_department), Len(documents))
    /\ UNCHANGED <<variant, cfg, offices, organizations, users,
                   users_by_department, documents, users_by_role, sameSeed, offices2,
                   organizations2, today>>

-----------------------------------------------------------------------------
(* The properties                                                          *)

\* the pipeline is past the loop of `stage`
Past(stage) == StageIndex(pc) > StageIndex(stage)

Members(g) == Range(users_by_department[g].members)

\* the user a supervisor reference names, 0 for None
SupervisorIndex(u) ==
    IF users[u].supervisor = PyNone THEN 0
    ELSE CHOOSE s \in DOMAIN users : users[s].userId = users[u].supervisor

\* the users reached from u by following at most n supervisor references
RECURSIVE Superiors(_, _)
Superiors(u, n) ==
    IF n = 0 \/ SupervisorIndex(u) = 0 THEN {}
    ELSE {SupervisorIndex(u)} \cup Superiors(SupervisorIndex(u), n - 1)

Rank(u) == PositionRank(variant, users[u].position)

\* C1: once supervisor resolution has run, and in every later state of the
\* pipeline, for all users A and B: A.userId is in B.supervisee if and only
\* if A.supervisor equals B.userId.
C1_SuperviseeIsInverseOfSupervisor ==
    Past("supervisor") =>
        \A a, b \in DOMAIN users :
            (users[a].userId \in users[b].supervisee)
                <=> (users[a].supervisor = users[b].userId)

\* a later stage is reached with a supervision edge in the population
C1_Witness ==
    /\ pc = "output"
    /\ Len(documents) > 0
    /\ \E a, b \in DOMAIN users :
          /\ a # b
          /\ users[a].supervisor = users[b].userId
          /\ users[a].userId \in users[b].supervisee

\* C2: after supervisor resolution the supervisor of every user U is none or
\* the id of a different user S of the same (tenant, department) group whose
\* position rank is strictly higher than U's, or equal to it with S inserted
\* into the group before U.
C2_SupervisorOutranksOrPrecedes ==
    Past("supervisor") =>
        \A u \in DOMAIN users :
            \/ users[u].supervisor = PyNone
            \/ \E s \in DOMAIN users \ {u} :
                  /\ users[s].userId = users[u].supervisor
                  /\ \E g \in DOMAIN users_by_department : {s, u} \subseteq Members(g)
                  /\ users[s].organization = users[u].organization
                  /\ users[s].department = users[u].department
                  /\ \/ Rank(s) > Rank(u)
                     \/ Rank(s) = Rank(u) /\ s < u

\* a user is supervised by an earlier user of equal rank, another by a later
\* user of higher rank
C2_Witness ==
    /\ Past("supervisor")
    /\ \E u, s \in DOMAIN users :
          users[u].supervisor = users[s].userId /\ Rank(s) = Rank(u) /\ s < u
    /\ \E u, s \in DOMAIN users :
          users[u].supervisor = users[s].userId /\ Rank(s) > Rank(u) /\ s > u

\* C3: in every state from its creation on, every document D has
\* D.tenant = D.owner.organization.orgId and D.department = D.owner.department.
C3_DocumentInheritsTenantAndDepartment ==
    \A d \in DOMAIN documents :
        /\ documents[d].tenant = organizations[users[documents[d].owner].organization].orgId
        /\ documents[d].department = users[documents[d].owner].department

\* the pipeline ends with a document whose owner's department is not the
\* first of its tenant, and one owned by a user without a department
C3_Witness ==
    /\ pc = "output"
    /\ \E d \in DOMAIN documents :
          /\ documents[d].department # NONE
          /\ documents[d].department # departments(variant, documents[d].tenant)[1]

InChainOrder(m) ==
    \A i, j \in DOMAIN m :
        i < j => \/ Rank(m[i]) > Rank(m[j])
                 \/ Rank(m[i]) = Rank(m[j]) /\ m[i] < m[j]

\* the members of a group in insertion order
RECURSIVE InInsertionOrder(_)
InInsertionOrder(S) ==
    IF S = {} THEN <<>>
    ELSE LET first == CHOOSE x \in S : \A y \in S : x <= y
         IN  <<first>> \o InInsertionOrder(S \ {first})

\* C5: each (tenant, department) group of n >= 2 members is one linear
\* supervision path in descending rank order, ties in insertion order: the
\* member at sorted index i > 0 has the member at index i-1 as supervisor,
\* exactly one member (the first) has no supervisor, exactly one (the last)
\* no supervisee, every member at most one supervisee, and following
\* supervisor references never revisits a user; a group of at most one member
\* has no edges; insertion-order ranks 3,1,2 give rank3 -> rank2 -> rank1.
C5_GroupIsOneLinearChain ==
    Past("supervisor") =>
        \A g \in DOMAIN users_by_department :
            LET m == users_by_department[g].members
                n == Len(m)
                ins == InInsertionOrder(Members(g))
            IN  /\ InChainOrder(m)
                /\ Cardinality(Members(g)) = n
                /\ \A i \in 2..n : users[m[i]].supervisor = users[m[i - 1]].userId
                /\ \A i \in 1..(n - 1) : users[m[i]].supervisee = {users[m[i + 1]].userId}
                /\ n >= 1 => /\ users[m[1]].supervisor = PyNone
                             /\ users[m[n]].supervisee = {}
                /\ n >= 2 =>
                      /\ {u \in Members(g) : users[u].supervisor = PyNone} = {m[1]}
                      /\ {u \in Members(g) : users[u].supervisee = {}} = {m[n]}
                /\ \A u \in Members(g) :
                      /\ Cardinality(users[u].supervisee) <= 1
                      /\ u \notin Superiors(u, Len(users))
                /\ (n = 3 /\ <<Rank(ins[1]), Rank(ins[2]), Rank(ins[3])>> = <<3, 1, 2>>) =>
                      /\ users[ins[1]].supervisor = PyNone
                      /\ users[ins[3]].supervisor = users[ins[1]].userId
                      /\ users[ins[2]].supervisor = users[ins[3]].userId
                      /\ users[ins[2]].supervisee = {}

\* the scenario: a group whose members were inserted with ranks 3, 1, 2
C5_Witness ==
    /\ Past("supervisor")
    /\ \E g \in DOMAIN users_by_department :
          LET ins == InInsertionOrder(Members(g))
          IN  /\ Len(ins) = 3
              /\ <<Rank(ins[1]), Rank(ins[2]), Rank(ins[3])>> = <<3, 1, 2>>
              /\ users[ins[2]].supervisor = users[ins[3]].userId

\* the tenants whose office count is 0
ZeroOfficeTenants == {t \in DOMAIN organizations : organizations[t].offices = 0}

\* C6: for every tenant whose office count is 0, every user of the tenant has
\* office "none", every document of the tenant has office "none", and no user
\* of the tenant has the position secretary or director.
C6_ZeroOfficeTenantHasNoOffices ==
    \A t \in ZeroOfficeTenants :
        /\ \A u \in DOMAIN users :
              users[u].organization = t =>
                  /\ users[u].office = NONE
                  /\ users[u].position \notin {"secretary", "director"}
        /\ \A d \in DOMAIN documents :
              documents[d].tenant = t => documents[d].office = NONE

\* the pipeline ends with an employee and a document of a tenant without offices
C6_Witness ==
    /\ pc = "output"
    /\ \E t \in ZeroOfficeTenants :
          /\ \E u \in DOMAIN users :
                users[u].organization = t /\ users[u].role = "employee"
          /\ \E d \in DOMAIN documents : documents[d].tenant = t

\* C7: a document whose owner's tenant T has office count N has the office
\* T + "Office" + k for some 1 <= k <= N if N > 0, and "none" if N = 0.
C7_DocumentOfficeInRange ==
    \A d \in DOMAIN documents :
        LET T == users[documents[d].owner].organization
            N == organizations[T].offices
        IN  IF N > 0
            THEN \E k \in 1..N : documents[d].office = <<T, "Office", k>>
            ELSE documents[d].office = NONE

\* a document takes the last office of a tenant with several, another has none
C7_Witness ==
    \E d \in DOMAIN documents :
        LET T == users[documents[d].owner].organization
            N == organizations[T].offices
        IN  N >= 2 /\ documents[d].office = <<T, "Office", N>>

\* C8: after the document back-reference step the id of every document is
\* in the projects of its owner, in the basic and in the extended variant.
C8_EveryDocumentIsInOwnerProjects ==
    pc = "output" =>
        \A d \in DOMAIN documents :
            documents[d].docId \in users[documents[d].owner].projects

\* C11: in the basic variant, once the registration step has run, every user
\* of the population (employee, helpdesk, admin, customer) is registered if
\* and only if its supervisee set is non-empty.
C11_BasicRegisteredIffSupervisee ==
    (variant = "basic" /\ Past("registered")) =>
        \A u \in DOMAIN users : users[u].registered <=> users[u].supervisee # {}

\* a basic population with a registered supervisor and its unregistered
\* supervisee is past the registration step
C11_Witness ==
    /\ variant = "basic"
    /\ Past("registered")
    /\ \E u, w \in DOMAIN users :
          /\ users[u].registered
          /\ users[w].supervisor = users[u].userId
          /\ ~users[w].registered

\* C12: a document of the basic variant has as recipients: every user whose
\* office is the document's office when that is not "none", otherwise
\* min(5, n) distinct users of the n users of the document's tenant; and in
\* both cases min(3, n) distinct users of the tenant; and nobody else.
C12_BasicRecipients ==
    variant = "basic" =>
        \A i \in DOMAIN documents :
            LET doc == documents[i]
                T == {u \in DOMAIN users :
                        organizations[users[u].organization].orgId = doc.tenant}
                O == {u \in DOMAIN users : users[u].office = doc.office}
            IN  \E S5 \in {S \in SUBSET T : Cardinality(S) = Min(5, Cardinality(T))} :
                \E S3 \in {S \in SUBSET T : Cardinality(S) = Min(3, Cardinality(T))} :
                    doc.recipients = (IF doc.office # NONE THEN O ELSE S5) \cup S3

\* a basic document without office whose recipients are five of the at least
\* six users of its tenant
C12_Witness ==
    /\ variant = "basic"
    /\ \E i \in DOMAIN documents :
          LET doc == documents[i]
              T == {u \in DOMAIN users :
                      organizations[users[u].organization].orgId = doc.tenant}
          IN  /\ doc.office = NONE
              /\ Cardinality(T) >= 6
              /\ Cardinality(doc.recipients) = 5

\* C13: set_recipients of the extended variant adds exactly three groups: of
\* the n > 0 users that share the document's office, a subset of 1 to
\* min(5, n) of them, any such subset being possible; of the t users of the
\* document's tenant a subset of 1 to min(8, t); of the d users of the
\* document's department a subset of 1 to min(5, d).  Hence a document ends
\* with at least 1 and at most 18 recipients.
C13_ExtendedRecipientsAreThreeRandomSubsets ==
    (variant = "extended" /\ Past("documents")) =>
        \A i \in DOMAIN documents :
            LET doc == documents[i]
                O == {u \in DOMAIN users : users[u].office = doc.office}
                T == {u \in DOMAIN users :
                        organizations[users[u].organization].orgId = doc.tenant}
                D == {u \in DOMAIN users : users[u].department = doc.department}
                Sub(S, hi) == {X \in SUBSET S : 1 <= Cardinality(X)
                                                 /\ Cardinality(X) <= Min(hi, Cardinality(S))}
                OfficeGroups == IF doc.office # NONE /\ O # {} THEN Sub(O, 5) ELSE {{}}
            IN  /\ OfficeRecipients(users, doc) = OfficeGroups
                /\ (Past("recipients") \/ (pc = "recipients" /\ i <= idx)) =>
                      /\ \E X \in OfficeGroups : \E Y \in Sub(T, 8) : \E Z \in Sub(D, 5) :
                            doc.recipients = X \cup Y \cup Z
                      /\ 1 <= Cardinality(doc.recipients)
                      /\ Cardinality(doc.recipients) <= 18

\* The trivial key=value splitter a reader of the file applies to a line.

\* text.split(sep): the pieces of a text between the occurrences of a token
RECURSIVE SplitAt(_, _, _)
SplitAt(text, sep, piece) ==
    IF text = <<>> THEN <<piece>>
    ELSE IF Head(text) = sep THEN <<piece>> \o SplitAt(Tail(text), sep, <<>>)
    ELSE SplitAt(Tail(text), sep, Append(piece, Head(text)))

\* a value read back: the elements between the braces, or the text itself
ReadValue(text) ==
    IF text # <<>> /\ Head(text) = "{" /\ text[Len(text)] = "}"
    THEN [elements |-> Range(SplitAt(SubSeq(text, 2, Len(text) - 1), " ", <<>>)) \ {<<>>},
          text |-> <<>>]
    ELSE [elements |-> {}, text |-> text]

\* kind(id, key=value, ...) read back: the id and the set of <<key, value>>
ReadLine(text) ==
    LET pieces == SplitAt(SubSeq(text, 3, Len(text) - 1), ", ", <<>>)
    IN  [kind |-> text[1],
         id |-> pieces[1],
         attributes |->
            {<<pieces[i][1], pieces[i][2], ReadValue(SubSeq(pieces[i], 3, Len(pieces[i])))>> :
                i \in 2..Len(pieces)}]

Scalar(text) == [elements |-> {}, text |-> text]
Elements(S) == [elements |-> S, text |-> <<>>]
TrueFalse(b) == Scalar(IF b THEN <<"True">> ELSE <<"False">>)

\* the keys and values of a user, as the file is to show them
UserAttributes(u) ==
    {<<"role", "=", Scalar(<<u.role>>)>>,
     <<"position", "=", Scalar(<<u.position>>)>>,
     <<"tenant", "=", Scalar(<<u.organization>>)>>,
     <<"department", "=", Scalar(u.department)>>,
     <<"office", "=", Scalar(OfficeText(u.office))>>,
     <<"registered", "=", TrueFalse(u.registered)>>,
     <<"projects", "=", Elements({IdText(x) : x \in u.projects})>>,
     <<"supervisor", "=",
       Scalar(IF u.supervisor = PyNone THEN <<"none">> ELSE IdText(u.supervisor))>>,
     <<"supervisee", "=", Elements({IdText(x) : x \in u.supervisee})>>,
     <<"payrollingPermissions", "=", TrueFalse(u.payrollingPermissions)>>}
    \cup (IF variant = "extended"
          THEN {<<"temporaryAccess", "=", Elements({IdText(x) : x \in u.temporaryAccess})>>,
                <<"delegatedAuthority", "=",
                  Elements({IdText(x) : x \in u.delegatedAuthority})>>,
                <<"currentProjects", "=", Elements({IdText(x) : x \in u.currentProjects})>>,
                <<"lastLogin", "=", Scalar(DateText(today[1], u.lastLoginDaysAgo))>>}
          ELSE {})

\* the keys and values of a document, as the file is to show them
DocumentAttributes(d) ==
    {<<"owner", "=", Scalar(IdText(users[d.owner].userId))>>,
     <<"tenant", "=", Scalar(<<d.tenant>>)>>,
     <<"department", "=", Scalar(d.department)>>,
     <<"office", "=", Scalar(OfficeText(d.office))>>,
     <<"recipients", "=", Elements({IdText(users[x].userId) : x \in d.recipients})>>}

C15_EveryUserIsIndexed ==
    \A u \in DOMAIN users :
        /\ \E g \in DOMAIN users_by_department :
              /\ users_by_department[g].key = <<users[u].organization, users[u].department>>
              /\ u \in Range(users_by_department[g].members)
        /\ \E r \in DOMAIN users_by_role :
              /\ users_by_role[r].key = users[u].role
              /\ u \in Range(users_by_role[r].members)

\* C16: in the extended variant, once the permission-assignment step has run,
\* every user with a tenant and a department whose role is manager, admin or
\* financialOfficer has payrollingPermissions, whatever the draws were.
C16_PrivilegedRolesHavePayrolling ==
    (variant = "extended" /\ Past("payroll")) =>
        \A u \in DOMAIN users :
            (/\ users[u].organization \in AllTenants
             /\ users[u].department # NONE
             /\ users[u].role \in {"manager", "admin", "financialOfficer"})
                => users[u].payrollingPermissions

\* the component a stage belongs to: 1 Organization Builder, 2 User
\* Population Generator, 3 Hierarchy & Relationship Resolver, 4 Project
\* Allocator, 5 Document Population Generator, 6 Recipient & Cross-Reference
\* Resolver, 7 Serializer
Component(stage) ==
    CASE stage \in {"offices", "organizations"} -> 1
      [] stage \in {"employees", "staff", "customers"} -> 2
      [] stage \in {"supervisor", "registered", "payroll", "tempAccess", "delegation"} -> 3
      [] stage = "projects" -> 4
      [] stage = "documents" -> 5
      [] stage \in {"recipients", "relationships"} -> 6
      [] OTHER -> 7

\* the step computes the recipients of some document
RecipientsComputed ==
    \E i \in DOMAIN documents' :
        documents'[i].recipients #
            (IF i \in DOMAIN documents THEN documents[i].recipients ELSE {})

PositionInScript(stage) ==
    CHOOSE k \in 1..16 :
        <<"offices", "organizations", "employees", "staff", "customers",
          "supervisor", "registered", "payroll", "projects", "tempAccess",
          "delegation", "documents", "recipients", "relationships",
          "output", "done">>[k] = stage

C18_DocumentOfficeIndependentOfOwner ==
    pc = "documents" =>
        \A owner \in DOMAIN users :
            LET tenant == users[owner].organization
            IN  offices[tenant] >= 2 =>
                    \A k \in 1..offices[tenant] :
                        ENABLED (/\ GenerateDocumentOf(owner, k)
                                 /\ documents'[Len(documents')].owner = owner
                                 /\ documents'[Len(documents')].office = OfficeName(tenant, k))

\* a final population with a document in an office of a tenant of two offices
\* whose owner has no office, and one with a document in another office than
\* its owner's
C18_Witness ==
    /\ pc = "output"
    /\ \E d \in DOMAIN documents :
          LET owner == users[documents[d].owner]
          IN  /\ offices[owner.organization] >= 2
              /\ documents[d].office # owner.office
              /\ documents[d].office # NONE
              /\ owner.office = NONE

\* C9: two runs with the same seed and the same configuration constants
\* build the same population and write the same output, byte for byte.
C9_SameSeedSameOutput ==
    (sameSeed /\ pc = "done") => out[1] = out[2]

Next ==
    \/ SetCustomerOffices
    \/ GenerateOrganizations
    \/ GenerateEmployee
    \/ GenerateStaff
    \/ GenerateCustomer
    \/ SupervisorLogic
    \/ UpdateRegistered
    \/ AssignPayrolling
    \/ GenerateProject
    \/ GenerateTemporaryAccess
    \/ GenerateDelegation
    \/ GenerateDocument
    \/ SetRecipients
    \/ AssignDocument

Spec == Init /\ [][Next]_vars

\* two runs observed side by side, up to the end of the output: the pair
\* configuration, and the mixed configuration of the basic variant
InitRuns ==
    /\ \/ InitWith({PairConfig}, BOOLEAN, 0..LastDay)
       \/ InitWith({MixedConfig}, BOOLEAN, 0..LastDay) /\ variant = "basic"
    /\ sameSeed \/ today = <<0, 0>>

NextRuns ==
    \/ Next
    \/ WriteUser
    \/ WriteDocument

SpecRuns == InitRuns /\ [][NextRuns]_vars

-----------------------------------------------------------------------------
(* The relationships step on a larger population.  The extended script is  *)
(* taken up where its relationships loop starts, for nUsers = nCustomers = *)
(* num_projects = 0: every placement of the specialized users is drawn,    *)
(* every owner, office number and approval status of the one document; the *)
(* draws that do not bear on the step are fixed to one outcome the script  *)
(* can produce (no delegation, a recipient sample that is the owner).      *)

\* the (tenant, department) pairs a specialized user can be placed in
StaffPlacements(v) ==
    UNION {{<<tenant, department>> : department \in StaffDepartments(v, tenant)} :
              tenant \in Range(tenants)}

\* users after the staff, registered and temporary-access loops
ReviewPopulation(v, place, access) ==
    [n \in DOMAIN place |->
        LET pr == StaffRole(v, n - 1)
            user == User(<<pr[1], StaffNumber(n - 1)>>, pr[2], place[n][1],
                         place[n][2], PyNone, PyNoneAtom, 0)
        IN  [user EXCEPT !.registered = RegisteredValue(v, user, 0),
                         !.temporaryAccess = access[n]]]

\* users_by_role after the first n users were appended
RECURSIVE RoleIndex(_, _, _)
RoleIndex(v, us, n) ==
    IF n = 0 THEN <<>>
    ELSE AppendToRole(v, RoleIndex(v, us, n - 1), us[n].role, n)

InitReview ==
    /\ variant = "extended"
    /\ cfg = ReviewConfig
    /\ pc = "relationships"
    /\ idx = 0
    /\ \E draw \in [Range(customerTenants) -> CustomerOfficeDraws(variant)] :
          /\ \A t \in Range(customerTenants) : draw[t] = 1
          /\ offices = WithCustomerOffices(OfficesLiteral(variant), draw)
    /\ organizations = BuildOrganizations(variant, offices)
    /\ \E place \in [1..(cfg.nStaff * Len(specialized_roles(variant))) ->
                         StaffPlacements(variant)] :
       \E access \in [DOMAIN place -> TemporaryAccessDraws] :
          users = ReviewPopulation(variant, place, access)
    /\ users_by_department = <<>>
    /\ users_by_role = RoleIndex(variant, users, Len(users))
    /\ \A u \in DOMAIN users : Delegates(users, u, DelegationRandomHi) = {{}}
    /\ \E owner \in DOMAIN users :
       \E k \in OfficeNumbers(offices[users[owner].organization]) :
       \E status \in approvalStatuses(variant) :
          LET doc == Document(<<"doc", 0>>, users, owner, offices, k, status)
          IN  /\ {} \in OfficeRecipients(users, doc)
              /\ {owner} \in TenantRecipients(users, doc)
              /\ {owner} \in DepartmentRecipients(users, doc)
              /\ documents = <<[doc EXCEPT !.recipients = {owner}]>>
    /\ sameSeed = TRUE
    /\ offices2 = offices
    /\ organizations2 = organizations
    /\ today = <<0, 0>>
    /\ out = << <<>>, <<>> >>

NextReview == AssignDocument

SpecReview == InitReview /\ [][NextReview]_vars

\* the documents the relationships loop has handled
RelationshipsSet ==
    IF pc = "relationships" THEN 1..idx
    ELSE IF Past("relationships") THEN DOMAIN documents
    ELSE {}

\* C19: in the extended variant, a document whose approvalStatus is neither
\* pending nor approved ends with empty reviewers and approvers; otherwise
\* its reviewers are 1 to 3 ids of users of the document's department other
\* than the owner, and its approvers 1 to 2 ids of users of the document's
\* department whose role is manager, director or admin; either set is empty
\* only when there is no such user.
C19_ReviewersAndApprovers ==
    variant = "extended" =>
        \A d \in RelationshipsSet :
            LET doc == documents[d]
                same_department == {u \in DOMAIN users :
                                      users[u].department = doc.department}
                reviewer_ids == {users[u].userId : u \in same_department \ {doc.owner}}
                approver_ids == {users[u].userId :
                                   u \in {x \in same_department :
                                            users[x].role \in {"manager", "director", "admin"}}}
            IN  IF doc.approvalStatus \notin {"pending", "approved"}
                THEN doc.reviewers = {} /\ doc.approvers = {}
                ELSE /\ doc.reviewers \subseteq reviewer_ids
                     /\ Cardinality(doc.reviewers) <= 3
                     /\ (doc.reviewers = {}) <=> (reviewer_ids = {})
                     /\ doc.approvers \subseteq approver_ids
                     /\ Cardinality(doc.approvers) <= 2
                     /\ (doc.approvers = {}) <=> (approver_ids = {})

\* a pending document with three reviewers out of more than three possible
\* ones and two approvers out of more than two possible ones
C19_Witness ==
    /\ variant = "extended"
    /\ Past("relationships")
    /\ \E d \in DOMAIN documents :
          /\ documents[d].approvalStatus = "pending"
          /\ Cardinality(documents[d].reviewers) = 3
          /\ Cardinality(potential_reviewers(users, documents[d])) > 3
          /\ Cardinality(documents[d].approvers) = 2
          /\ Cardinality(potential_approvers(users, documents[d])) > 2

\* C20: in the extended variant, the team of a project is a set of 3 to 20
\* distinct users of the whole population, or all users when there are fewer
\* than the size drawn; right after the project is created, its id is in
\* currentProjects and in projects of every member of the team and in
\* currentProjects of no other user.
C20_ProjectAllocation ==
    [][pc = "projects" =>
          LET project_id == <<"proj", idx>>
              team == {u \in DOMAIN users' : project_id \in users'[u].currentProjects}
          IN  /\ DOMAIN users' = DOMAIN users
              /\ \E size \in 3..20 :
                    Cardinality(team) = IF size < Len(users) THEN size ELSE Len(users)
              /\ \A u \in team : project_id \in users'[u].projects
              /\ \A u \in DOMAIN users :
                    /\ project_id \notin users[u].currentProjects
                    /\ project_id \notin users[u].projects]_vars

\* right after the project loop, proj0 has a team of three and a user outside it
C20_Witness ==
    /\ variant = "extended"
    /\ pc = "tempAccess"
    /\ Cardinality({u \in DOMAIN users : <<"proj", 0>> \in users[u].currentProjects}) = 3
    /\ \A u \in DOMAIN users :
          <<"proj", 0>> \in users[u].currentProjects <=> <<"proj", 0>> \in users[u].projects
    /\ \E u \in DOMAIN users : <<"proj", 0>> \notin users[u].currentProjects

\* the users that hold the id of user d in their delegatedAuthority
HoldersOfAuthority(d) ==
    {u \in DOMAIN users : users[d].userId \in users[u].delegatedAuthority}

\* C21: in the extended variant, every id in the delegatedAuthority of a user
\* U is the id of another user, whose role is manager, director or
\* projectManager and whose department is the department of U; and the id of
\* a delegating user is in the delegatedAuthority of at most one user.
C21_DelegationToOneSameDepartmentPeer ==
    variant = "extended" =>
        /\ \A U \in DOMAIN users :
              \A id \in users[U].delegatedAuthority :
                  \E d \in DOMAIN users :
                      /\ users[d].userId = id
                      /\ d # U
                      /\ users[d].role \in {"manager", "director", "projectManager"}
                      /\ users[d].department = users[U].department
        /\ \A d \in DOMAIN users : Cardinality(HoldersOfAuthority(d)) <= 1

\* the delegation loop is over, and a project manager with two peers in its
\* department has delegated to one of them
C21_Witness ==
    /\ variant = "extended"
    /\ Past("delegation")
    /\ \E d \in DOMAIN users :
          /\ users[d].role = "projectManager"
          /\ Cardinality({u \in DOMAIN users :
                             u # d /\ users[u].department = users[d].department}) >= 2
          /\ Cardinality(HoldersOfAuthority(d)) = 1

\* the collections the next iteration of the running loop draws from are not
\* empty, whatever its earlier draws return
NoEmptyDraw ==
    /\ pc = "offices" => CustomerOfficeDraws(variant) # {}
    /\ pc = "employees" =>
          /\ Range(tenants) # {}
          /\ \A tenant \in Range(tenants) :
                /\ valid_positions(variant, offices[tenant]) # {}
                /\ OfficeNumbers(offices[tenant]) # {}
                /\ Range(departments(variant, tenant)) # {}
          /\ LoginDraws(variant) # {}
    /\ pc = "staff" =>
          /\ Range(tenants) # {}
          /\ \A tenant \in Range(tenants) : StaffDepartments(variant, tenant) # {}
    /\ pc = "customers" =>
          /\ Range(customerTenants) # {}
          /\ \A tenant \in Range(customerTenants) :
                CustomerDepartments(variant, tenant) # {}
    /\ pc = "payroll" => DOMAIN users_by_department[idx + 1].members # {}
    /\ pc = "projects" =>
          /\ DOMAIN users # {}
          /\ \A project_team_size \in TeamSizeLo..TeamSizeHi :
                ProjectTeams(users, project_team_size) # {}
    /\ pc = "tempAccess" => TemporaryAccessDraws # {}
    /\ pc = "delegation" =>
          \A r \in 0..DelegationRandomHi : Delegates(users, idx + 1, r) # {}
    /\ pc = "documents" =>
          /\ DOMAIN users # {}
          /\ approvalStatuses(variant) # {}
          /\ \A owner \in DOMAIN users :
                /\ OfficeNumbers(offices[users[owner].organization]) # {}
                /\ variant = "basic" =>
                      /\ get_random_users_from_tenant(users, users[owner].organization,
                                                      NoOfficeRecipients) # {}
                      /\ get_random_users_from_tenant(users, users[owner].organization,
                                                      ExtraRecipients) # {}
    /\ pc = "recipients" =>
          /\ OfficeRecipients(users, documents[idx + 1]) # {}
          /\ TenantRecipients(users, documents[idx + 1]) # {}
          /\ DepartmentRecipients(users, documents[idx + 1]) # {}
    /\ pc = "relationships" =>
          /\ Reviewers(variant, users, documents[idx + 1]) # {}
          /\ Approvers(variant, users, documents[idx + 1]) # {}

\* what the degenerate cases are given: no office for a user or a document
\* of a tenant without offices, no supervisor and no supervisee in a group of
\* one, no reviewers or approvers without candidates
DegenerateGroupsYieldNone ==
    /\ \A u \in DOMAIN users :
          offices[users[u].organization] = 0 => users[u].office = NONE
    /\ \A d \in DOMAIN documents :
          offices[documents[d].tenant] = 0 => documents[d].office = NONE
    /\ Past("supervisor") =>
          \A g \in DOMAIN users_by_department :
              Len(users_by_department[g].members) = 1 =>
                  LET u == users[users_by_department[g].members[1]]
                  IN  u.supervisor = PyNone /\ u.supervisee = {}

C23_ProjectsHoldOwnedDocumentsAndTeamProjects ==
    \A U \in DOMAIN users :
        \A id \in users[U].projects :
            \/ \E d \in DOMAIN documents :
                  documents[d].docId = id /\ documents[d].owner = U
            \/ /\ variant = "extended"
               /\ id[1] = "proj"
               /\ id[2] \in 0..(cfg.num_projects - 1)
               /\ id \in users[U].currentProjects

\* at the end of generation a user holds a project of its team and a document
\* it owns, and another user holds neither
C23_Witness ==
    /\ pc = "output"
    /\ \E U \in DOMAIN users :
          /\ \E id \in users[U].projects : id[1] = "proj"
          /\ \E id \in users[U].projects : id[1] = "doc"
    /\ \E U \in DOMAIN users : users[U].projects = {}

\* C24: in both variants, every user among the recipients of a document
\* belongs to the organization whose orgId is the tenant of the document.
C24_RecipientsWithinTenant ==
    \A d \in DOMAIN documents :
        \A u \in documents[d].recipients :
            organizations[users[u].organization].orgId = documents[d].tenant

\* at the end of generation an extended document has two recipients, chosen
\* while users of another tenant exist, one of them a customer
C24_Witness ==
    /\ pc = "output"
    /\ variant = "extended"
    /\ \E d \in DOMAIN documents :
          /\ Cardinality(documents[d].recipients) >= 2
          /\ \E u \in DOMAIN users :
                organizations[users[u].organization].orgId # documents[d].tenant
          /\ \E u \in DOMAIN users : users[u].role = "customer"


====
